---- MODULE Spec2Model ----
(***************************************************************************)
(* Model of merge_geoip.py: the location index (_load_locations), the      *)
(* CIDR range computation (_calc_ip_range, i.e. ipaddress.ip_network with  *)
(* strict=False), the block enrichment (merge) and the part of _cli that   *)
(* writes the output.                                                      *)
(*                                                                         *)
(* Text is a sequence of one-character strings, so that parsing and        *)
(* formatting are computed character by character.  The alphabet of the    *)
(* modelled cells is ASCII: digits, letters, space and . / : - + _ < >.    *)
(* Addresses are kept as sequences of groups (4 groups of 8 bits for IPv4, *)
(* 8 groups of 16 bits for IPv6), big-endian, so that no number exceeds    *)
(* 16 bits.                                                                *)
(***************************************************************************)
EXTENDS Integers, Sequences, FiniteSets, TLC

\* F applied to the value of v, with v evaluated once
Bind(v, F(_)) == CHOOSE r \in {F(x) : x \in {v}} : TRUE

(***************************************************************************)
(* Characters and text                                                     *)
(***************************************************************************)
DecDigits == {"0", "1", "2", "3", "4", "5", "6", "7", "8", "9"}

HexDigits == DecDigits \cup {"a", "b", "c", "d", "e", "f", "A", "B", "C", "D", "E", "F"}

HexValTable ==
    "0" :> 0 @@ "1" :> 1 @@ "2" :> 2 @@ "3" :> 3 @@ "4" :> 4 @@ "5" :> 5 @@ "6" :> 6
    @@ "7" :> 7 @@ "8" :> 8 @@ "9" :> 9 @@ "a" :> 10 @@ "b" :> 11 @@ "c" :> 12
    @@ "d" :> 13 @@ "e" :> 14 @@ "f" :> 15 @@ "A" :> 10 @@ "B" :> 11 @@ "C" :> 12
    @@ "D" :> 13 @@ "E" :> 14 @@ "F" :> 15

HexVal(c) == HexValTable[c]

HexChars == <<"0", "1", "2", "3", "4", "5", "6", "7", "8", "9", "a", "b", "c", "d", "e", "f">>

HexChar(n) == HexChars[n + 1]

RECURSIVE Pow(_, _)
Pow(b, n) == IF n = 0 THEN 1 ELSE b * Pow(b, n - 1)

Min(a, b) == IF a < b THEN a ELSE b

Max(a, b) == IF a > b THEN a ELSE b

MinOf(S) == CHOOSE i \in S : \A j \in S : i <= j

AllIn(s, set) == \A i \in 1..Len(s) : s[i] \in set

\* int(s, base) of a string of digits of that base
RECURSIVE NumValTo(_, _, _)
NumValTo(s, n, base) ==
    IF n = 0 THEN 0 ELSE NumValTo(s, n - 1, base) * base + HexVal(s[n])

NumVal(s, base) == Bind(s, LAMBDA t : NumValTo(t, Len(t), base))

\* '%d' % n and '%x' % n
RECURSIVE NumStrRec(_, _)
NumStrRec(n, base) ==
    IF n < base THEN <<HexChar(n)>>
    ELSE NumStrRec(n \div base, base) \o <<HexChar(n % base)>>

NumStr(n, base) == Bind(n, LAMBDA m : NumStrRec(m, base))

\* str.split(sep): the pieces between the occurrences of sep
SplitAt(s, sep, cuts) ==
    [k \in 1..(Cardinality(cuts) + 1) |->
        LET before == {i \in cuts : Cardinality({j \in cuts : j < i}) = k - 2}
            after  == {i \in cuts : Cardinality({j \in cuts : j < i}) = k - 1}
        IN  SubSeq(s, IF before = {} THEN 1 ELSE MinOf(before) + 1,
                      IF after = {} THEN Len(s) ELSE MinOf(after) - 1)] \o <<>>

Split(s, sep) ==
    Bind(s, LAMBDA t : Bind({i \in 1..Len(t) : t[i] = sep}, LAMBDA cuts : SplitAt(t, sep, cuts)))

\* sep.join(parts)
RECURSIVE JoinTo(_, _, _)
JoinTo(parts, n, sep) ==
    IF n = 0 THEN <<>>
    ELSE IF n = 1 THEN parts[1]
    ELSE JoinTo(parts, n - 1, sep) \o <<sep>> \o parts[n]

Join(parts, sep) == Bind(parts \o <<>>, LAMBDA p : JoinTo(p, Len(p), sep))

\* s without the leading characters that are in set
DropLeading(s, set) ==
    Bind(s, LAMBDA t :
        Bind({i \in 1..Len(t) : t[i] \notin set}, LAMBDA keep :
            IF keep = {} THEN <<>> ELSE SubSeq(t, MinOf(keep), Len(t))))

\* s without the trailing characters that are in set
DropTrailing(s, set) ==
    Bind(s, LAMBDA t :
        Bind({i \in 1..Len(t) : t[i] \notin set}, LAMBDA keep :
            IF keep = {} THEN <<>> ELSE SubSeq(t, 1, 0 - MinOf({0 - i : i \in keep}))))

LStrip(s) == DropLeading(s, {" "})

RStrip(s) == DropTrailing(s, {" "})

(***************************************************************************)
(* Bitwise arithmetic on one group of w bits                               *)
(***************************************************************************)
RECURSIVE BitAndRec(_, _, _)
BitAndRec(a, b, w) ==
    IF w = 0 THEN 0
    ELSE 2 * BitAndRec(a \div 2, b \div 2, w - 1) + (IF a % 2 = 1 /\ b % 2 = 1 THEN 1 ELSE 0)

BitAnd(a, b, w) == Bind(<<a, b>>, LAMBDA p : BitAndRec(p[1], p[2], w))

RECURSIVE BitOrRec(_, _, _)
BitOrRec(a, b, w) ==
    IF w = 0 THEN 0
    ELSE 2 * BitOrRec(a \div 2, b \div 2, w - 1) + (IF a % 2 = 1 \/ b % 2 = 1 THEN 1 ELSE 0)

BitOr(a, b, w) == Bind(<<a, b>>, LAMBDA p : BitOrRec(p[1], p[2], w))

\* group i (1-based) of ALL_ONES ^ (ALL_ONES >> prefixlen), groups of w bits
NetmaskGroups(prefixlen, n, w) ==
    [i \in 1..n |->
        Pow(2, w) - Pow(2, w - Max(0, Min(w, prefixlen - (i - 1) * w)))] \o <<>>

\* netmask ^ ALL_ONES
HostmaskGroups(prefixlen, n, w) ==
    [i \in 1..n |->
        Pow(2, w - Max(0, Min(w, prefixlen - (i - 1) * w))) - 1] \o <<>>

AndGroups(a, b, w) ==
    Bind(<<a, b>>, LAMBDA p : [i \in 1..Len(p[1]) |-> BitAnd(p[1][i], p[2][i], w)] \o <<>>)

OrGroups(a, b, w) ==
    Bind(<<a, b>>, LAMBDA p : [i \in 1..Len(p[1]) |-> BitOr(p[1][i], p[2][i], w)] \o <<>>)

(***************************************************************************)
(* ipaddress: IPv4                                                         *)
(***************************************************************************)
Fail == [ok |-> FALSE]

\* IPv4Address._parse_octet
ParseOctetOk(o) ==
    /\ o # <<>>
    /\ AllIn(o, DecDigits)
    /\ Len(o) <= 3
    /\ ~(Len(o) > 1 /\ o[1] = "0")
    /\ NumVal(o, 10) <= 255

\* IPv4Address._ip_int_from_string
IPv4FromString(s) ==
    Bind(Split(s, "."), LAMBDA octets :
        IF Len(octets) = 4 /\ \A i \in 1..4 : ParseOctetOk(octets[i])
        THEN [ok |-> TRUE, groups |-> [i \in 1..4 |-> NumVal(octets[i], 10)] \o <<>>]
        ELSE Fail)

\* _BaseConstants._prefix_from_prefix_string: ASCII digits only, then int() and
\* the range check (more than three significant digits is out of range)
PrefixFromPrefixString(s, maxlen) ==
    Bind(s, LAMBDA t :
        IF t # <<>> /\ AllIn(t, DecDigits) /\ Len(DropLeading(t, {"0"})) <= 3
           /\ NumVal(DropLeading(t, {"0"}), 10) <= maxlen
        THEN [ok |-> TRUE, prefixlen |-> NumVal(DropLeading(t, {"0"}), 10)]
        ELSE Fail)

\* _prefix_from_ip_int: the prefix length whose netmask is exactly these groups
PrefixFromGroups(g) ==
    Bind({p \in 0..32 : NetmaskGroups(p, 4, 8) = g}, LAMBDA fits :
        IF fits # {} THEN [ok |-> TRUE, prefixlen |-> MinOf(fits)] ELSE Fail)

\* _prefix_from_ip_string: a netmask, or else a hostmask
PrefixFromIpString(s) ==
    Bind(IPv4FromString(s), LAMBDA ip :
        IF ~ip.ok THEN Fail
        ELSE Bind(PrefixFromGroups(ip.groups), LAMBDA netmask :
                IF netmask.ok THEN netmask
                ELSE PrefixFromGroups([i \in 1..4 |-> 255 - ip.groups[i]] \o <<>>)))

\* IPv4Network._make_netmask for a string argument
MakeNetmask4(s) ==
    Bind(PrefixFromPrefixString(s, 32), LAMBDA prefix :
        IF prefix.ok THEN prefix ELSE PrefixFromIpString(s))

\* Faulty variant of IPv4Network: strict parsing, an address with host bits set
\* is refused.
IPv4NetworkStrict(cidr) ==
    Bind(Split(cidr, "/"), LAMBDA parts :
        IF Len(parts) > 2 THEN Fail
        ELSE Bind(IPv4FromString(parts[1]), LAMBDA addr :
                IF ~addr.ok THEN Fail
                ELSE Bind(IF Len(parts) = 2 THEN MakeNetmask4(parts[2])
                          ELSE [ok |-> TRUE, prefixlen |-> 32], LAMBDA mask :
                        IF ~mask.ok THEN Fail
                        ELSE IF AndGroups(addr.groups, NetmaskGroups(mask.prefixlen, 4, 8), 8)
                                # addr.groups THEN Fail
                        ELSE [ok |-> TRUE, version |-> 4, prefixlen |-> mask.prefixlen,
                              groups |-> addr.groups])))

\* IPv4Network(cidr, strict=False): [ok, version, prefixlen, groups (the network address)]
IPv4Network(cidr) ==
    Bind(Split(cidr, "/"), LAMBDA parts :
        IF Len(parts) > 2 THEN Fail
        ELSE Bind(IPv4FromString(parts[1]), LAMBDA addr :
                IF ~addr.ok THEN Fail
                ELSE Bind(IF Len(parts) = 2 THEN MakeNetmask4(parts[2])
                          ELSE [ok |-> TRUE, prefixlen |-> 32], LAMBDA mask :
                        IF ~mask.ok THEN Fail
                        ELSE [ok |-> TRUE, version |-> 4, prefixlen |-> mask.prefixlen,
                              groups |-> AndGroups(addr.groups,
                                             NetmaskGroups(mask.prefixlen, 4, 8), 8)])))

(***************************************************************************)
(* ipaddress: IPv6                                                         *)
(***************************************************************************)
\* IPv6Address._parse_hextet
ParseHextetOk(h) == h # <<>> /\ AllIn(h, HexDigits) /\ Len(h) <= 4

\* the parts after an IPv4-style suffix has been converted to two hextets, and
\* how many parts the split at ":" gave
V6Parts(s) ==
    Bind(Split(s, ":"), LAMBDA parts :
        IF \E i \in 1..Len(parts[Len(parts)]) : parts[Len(parts)][i] = "."
        THEN Bind(IPv4FromString(parts[Len(parts)]), LAMBDA v4 :
                IF v4.ok
                THEN [ok |-> TRUE, split |-> Len(parts),
                      parts |-> SubSeq(parts, 1, Len(parts) - 1)
                                \o <<NumStr(v4.groups[1] * 256 + v4.groups[2], 16),
                                     NumStr(v4.groups[3] * 256 + v4.groups[4], 16)>>]
                ELSE Fail)
        ELSE [ok |-> TRUE, split |-> Len(parts), parts |-> parts])

\* the hextets of an address with "::" at part skip: hi parts before it, lo after
V6Skipped(parts, n, skip) ==
    Bind(<<IF parts[1] = <<>> THEN skip - 2 ELSE skip - 1,
           IF parts[n] = <<>> THEN n - skip - 1 ELSE n - skip>>, LAMBDA hl :
        IF \/ (parts[1] = <<>> /\ hl[1] # 0)
           \/ (parts[n] = <<>> /\ hl[2] # 0)
           \/ 8 - (hl[1] + hl[2]) < 1
           \/ \E i \in 1..hl[1] : ~ParseHextetOk(parts[i])
           \/ \E i \in (n - hl[2] + 1)..n : ~ParseHextetOk(parts[i])
        THEN Fail
        ELSE [ok |-> TRUE,
              groups |-> [i \in 1..8 |->
                            IF i <= hl[1] THEN NumVal(parts[i], 16)
                            ELSE IF i <= 8 - hl[2] THEN 0
                            ELSE NumVal(parts[n - (8 - i)], 16)] \o <<>>])

\* IPv6Address._ip_int_from_string
IPv6FromString(s) ==
    IF s = <<>> \/ Len(s) > 45 THEN Fail
    ELSE Bind(V6Parts(s), LAMBDA vp :
        IF ~vp.ok \/ vp.split < 3 \/ Len(vp.parts) > 9 THEN Fail
        ELSE Bind({i \in 2..(Len(vp.parts) - 1) : vp.parts[i] = <<>>}, LAMBDA skips :
            IF Cardinality(skips) > 1 THEN Fail
            ELSE IF skips # {} THEN V6Skipped(vp.parts, Len(vp.parts), MinOf(skips))
            ELSE IF Len(vp.parts) # 8 \/ \E i \in 1..8 : ~ParseHextetOk(vp.parts[i]) THEN Fail
            ELSE [ok |-> TRUE, groups |-> [i \in 1..8 |-> NumVal(vp.parts[i], 16)] \o <<>>]))

\* IPv6Network(cidr, strict=False): the prefix is a prefix length only
IPv6Network(cidr) ==
    Bind(Split(cidr, "/"), LAMBDA parts :
        IF Len(parts) > 2 THEN Fail
        ELSE Bind(IPv6FromString(parts[1]), LAMBDA addr :
                IF ~addr.ok THEN Fail
                ELSE Bind(IF Len(parts) = 2 THEN PrefixFromPrefixString(parts[2], 128)
                          ELSE [ok |-> TRUE, prefixlen |-> 128], LAMBDA mask :
                        IF ~mask.ok THEN Fail
                        ELSE [ok |-> TRUE, version |-> 6, prefixlen |-> mask.prefixlen,
                              groups |-> AndGroups(addr.groups,
                                             NetmaskGroups(mask.prefixlen, 8, 16), 16)])))

\* ipaddress.ip_network(cidr, strict=False): IPv4 first, then IPv6, else ValueError
ip_network(cidr) ==
    Bind(IPv4Network(cidr), LAMBDA v4 : IF v4.ok THEN v4 ELSE IPv6Network(cidr))

\* _BaseNetwork.broadcast_address: network_address | hostmask
broadcast_address(net) ==
    IF net.version = 4
    THEN OrGroups(net.groups, HostmaskGroups(net.prefixlen, 4, 8), 8)
    ELSE OrGroups(net.groups, HostmaskGroups(net.prefixlen, 8, 16), 16)

\* IPv4Address.__str__
StrIPv4(g) == Join([i \in 1..4 |-> NumStr(g[i], 10)], ".")

\* the number of "0" hextets in a row from hextet i on
RunLen(g, i) ==
    IF g[i] # 0 THEN 0
    ELSE Bind({j \in i..8 : g[j] # 0}, LAMBDA stop :
            IF stop = {} THEN 9 - i ELSE MinOf(stop) - i)

\* IPv6Address.__str__ with _compress_hextets: the first longest run of "0"
\* hextets, when longer than one, becomes "::"
StrIPv6Compressed(hex, runs) ==
    Bind(CHOOSE i \in 1..8 : \A j \in 1..8 :
            runs[i] > runs[j] \/ (runs[i] = runs[j] /\ i <= j), LAMBDA best :
        IF runs[best] > 1
        THEN Join(SubSeq(hex, 1, best - 1), ":") \o <<":", ":">>
             \o Join(SubSeq(hex, best + runs[best], 8), ":")
        ELSE Join(hex, ":"))

StrIPv6(g) ==
    Bind(g, LAMBDA h :
        StrIPv6Compressed([i \in 1..8 |-> NumStr(h[i], 16)] \o <<>>,
                          [i \in 1..8 |-> RunLen(h, i)] \o <<>>))

StrAddress(version, g) == IF version = 4 THEN StrIPv4(g) ELSE StrIPv6(g)

\* _calc_ip_range: (str(net.network_address), str(net.broadcast_address)),
\* or the ValueError of ip_network
_calc_ip_range(cidr) ==
    Bind(ip_network(cidr), LAMBDA net :
        IF net.ok
        THEN [ok |-> TRUE,
              start_ip |-> StrAddress(net.version, net.groups),
              end_ip   |-> StrAddress(net.version, broadcast_address(net))]
        ELSE Fail)


(***************************************************************************)
(* Values of a pandas cell: text, a nullable integer, pd.NA, None          *)
(***************************************************************************)
Str(s) == [k |-> "str", s |-> s]

\* an integer, as its decimal text (see Canon)
Int64(t) == [k |-> "int", s |-> t]

NA == [k |-> "NA", s |-> <<>>]

PyNone == [k |-> "None", s |-> <<>>]

\* pandas.isna
isna(x) == x.k \in {"NA", "None"}

\* the major versions of pandas the program runs on
PandasVersions == {1, 2}

\* pandas' default NA strings (STR_NA_VALUES); None is one of them from
\* pandas 2 on
STR_NA_VALUES(version) ==
    {<<>>, <<"#", "N", "/", "A">>, <<"#", "N", "/", "A", " ", "N", "/", "A">>, <<"#", "N", "A">>, <<"-", "1", ".", "#", "I", "N", "D">>, <<"-", "1", ".", "#", "Q", "N", "A", "N">>, <<"-", "N", "a", "N">>, <<"-", "n", "a", "n">>,
     <<"1", ".", "#", "I", "N", "D">>, <<"1", ".", "#", "Q", "N", "A", "N">>, <<"<", "N", "A", ">">>, <<"N", "/", "A">>, <<"N", "A">>, <<"N", "U", "L", "L">>, <<"N", "a", "N">>,
     <<"n", "/", "a">>, <<"n", "a", "n">>, <<"n", "u", "l", "l">>}
    \cup (IF version = 1 THEN {} ELSE {<<"N", "o", "n", "e">>})

\* na_values=["", " ", "  "] of the read of the block table
BLOCK_NA_VALUES == {<<>>, <<" ">>, <<" ", " ">>}

\* one field of read_csv(..., dtype="string"): the token, with the blanks after
\* the delimiter dropped under skipinitialspace, is NA when it is one of the NA
\* strings na_values (the default ones and those the call adds)
ReadCell(raw, skipinitialspace, na_values) ==
    Bind(IF skipinitialspace THEN LStrip(raw) ELSE raw, LAMBDA token :
        IF token \in na_values THEN NA ELSE Str(token))

(***************************************************************************)
(* int(row.geoname_id) of _load_locations                                  *)
(***************************************************************************)
\* the decimal text of an integer: no leading zeros, a minus sign when negative
Canon(neg, digits) ==
    Bind(DropLeading(digits, {"0"}), LAMBDA d :
        IF d = <<>> THEN <<"0">> ELSE IF neg THEN <<"-">> \o d ELSE d)

\* digits, with single underscores between digits
PyDigitsOk(d) ==
    /\ d # <<>>
    /\ AllIn(d, DecDigits \cup {"_"})
    /\ d[1] # "_" /\ d[Len(d)] # "_"
    /\ \A i \in 1..(Len(d) - 1) : ~(d[i] = "_" /\ d[i + 1] = "_")

\* the digits of d in order, its underscores dropped
RECURSIVE DigitsOnlyTo(_, _)
DigitsOnlyTo(d, n) ==
    IF n = 0 THEN <<>>
    ELSE IF d[n] = "_" THEN DigitsOnlyTo(d, n - 1)
    ELSE DigitsOnlyTo(d, n - 1) \o <<d[n]>>

DropUnderscores(d) == DigitsOnlyTo(d, Len(d))

\* int() of stripped text t
PyIntStripped(t) ==
    Bind(IF t # <<>> /\ t[1] \in {"+", "-"} THEN Tail(t) ELSE t, LAMBDA d :
        IF PyDigitsOk(d)
        THEN [ok |-> TRUE, v |-> Canon(t[1] = "-", DropUnderscores(d))]
        ELSE Fail)

\* int(x), as decimal text: TypeError for pd.NA, ValueError for text that is no
\* integer literal
PyInt(x) ==
    Bind(x, LAMBDA y : IF y.k # "str" THEN Fail ELSE Bind(RStrip(LStrip(y.s)), PyIntStripped))

(***************************************************************************)
(* pd.to_numeric(column, errors="coerce").astype("Int64")                  *)
(***************************************************************************)
\* the longest prefix of t made of decimal digits, and what follows it
DigitRun(t) ==
    Bind({i \in 1..Len(t) : t[i] \notin DecDigits}, LAMBDA stops :
        IF stops = {} THEN t ELSE SubSeq(t, 1, MinOf(stops) - 1))

After(t, run) == SubSeq(t, Len(run) + 1, Len(t))

\* float64 holds every decimal number of up to DBL_DIG digits apart, and the
\* powers of ten up to 10^MaxExp10 exactly
DBL_DIG == 15

MaxExp10 == 22

\* a value the model leaves unspecified
Unspecified(x) == CHOOSE y \in {} : y = x

\* the digits before the decimal point of digits * 10^(point - Len(digits))
IntDigits(digits, point) ==
    IF point <= 0 THEN <<>>
    ELSE IF point >= Len(digits) THEN digits \o [i \in 1..(point - Len(digits)) |-> "0"]
    ELSE SubSeq(digits, 1, point)

\* the float64 of the mantissa digits with the decimal point after the first
\* point of them: its integer part toward zero, as decimal text, and whether a
\* fraction is left.  Within DBL_DIG mantissa digits, an exponent up to
\* MaxExp10 and DBL_DIG digits of integer part the float is integral exactly
\* when the decimal number is, and its integer part is that of the decimal
\* number; beyond them the rounding of xstrtod to float64 decides, which is
\* left unspecified.
NumberValue(neg, digits, point) ==
    IF \/ Len(digits) > DBL_DIG
       \/ Len(DropLeading(IntDigits(digits, point), {"0"})) > DBL_DIG
    THEN Unspecified(digits)
    ELSE [ok   |-> TRUE,
          v    |-> Canon(neg, IntDigits(digits, point)),
          frac |-> \E i \in (Max(point, 0) + 1)..Len(digits) : digits[i] # "0"]

\* the exponent part t of a number and the blanks after it
ParseExponent(neg, ipart, fpart, t) ==
    IF t # <<>> /\ t[1] \in {"e", "E"}
    THEN Bind(IF Len(t) > 1 /\ t[2] \in {"+", "-"} THEN SubSeq(t, 3, Len(t)) ELSE Tail(t),
              LAMBDA body :
            Bind(DigitRun(body), LAMBDA epart :
                IF epart = <<>> \/ RStrip(After(body, epart)) # <<>> THEN Fail
                ELSE IF Len(DropLeading(epart, {"0"})) > 2 THEN Unspecified(epart)
                ELSE IF NumVal(epart, 10) > MaxExp10 THEN Unspecified(epart)
                ELSE NumberValue(neg, ipart \o fpart,
                                 Len(ipart) + (IF t[2] = "-" THEN 0 - NumVal(epart, 10)
                                               ELSE NumVal(epart, 10)))))
    ELSE IF RStrip(t) # <<>> THEN Fail
    ELSE NumberValue(neg, ipart \o fpart, Len(ipart))

\* the fraction part t (from the decimal point on) of a number
ParseFraction(neg, ipart, t) ==
    IF t # <<>> /\ t[1] = "."
    THEN Bind(DigitRun(Tail(t)), LAMBDA fpart :
            IF ipart \o fpart = <<>> THEN Fail
            ELSE Bind(After(Tail(t), fpart), LAMBDA rest :
                    ParseExponent(neg, ipart, fpart, rest)))
    ELSE IF ipart = <<>> THEN Fail
    ELSE ParseExponent(neg, ipart, <<>>, t)

\* the mantissa t of a number, after the sign
ParseMantissa(neg, t) ==
    Bind(DigitRun(t), LAMBDA ipart :
        Bind(After(t, ipart), LAMBDA rest : ParseFraction(neg, ipart, rest)))

\* xstrtod: [blanks][sign]digits[.digits][(e|E)[sign]digits][blanks], at least
\* one mantissa digit, the whole text consumed.  The result is the integer
\* part of the number, toward zero, as decimal text, and whether a fraction is
\* left.
ParseNumber(s) ==
    Bind(LStrip(s), LAMBDA t :
        IF t # <<>> /\ t[1] \in {"+", "-"}
        THEN Bind(Tail(t), LAMBDA body : ParseMantissa(t[1] = "-", body))
        ELSE ParseMantissa(FALSE, t))

\* the letters of the spellings of infinity, in lower case
LowerChar(c) ==
    CASE c = "I" -> "i" [] c = "N" -> "n" [] c = "F" -> "f"
      [] c = "T" -> "t" [] c = "Y" -> "y" [] OTHER -> c

\* floatify, for text xstrtod refuses: inf, +inf, -inf, infinity, +infinity,
\* -infinity in any case and nothing around them; 1, -1 or 0 for no infinity
ParseInfinity(s) ==
    Bind([i \in 1..Len(s) |-> LowerChar(s[i])] \o <<>>, LAMBDA t :
        IF t \in {<<"i", "n", "f">>, <<"+", "i", "n", "f">>, <<"i", "n", "f", "i", "n", "i", "t", "y">>, <<"+", "i", "n", "f", "i", "n", "i", "t", "y">>} THEN 1
        ELSE IF t \in {<<"-", "i", "n", "f">>, <<"-", "i", "n", "f", "i", "n", "i", "t", "y">>} THEN -1
        ELSE 0)

\* to_numeric of one cell under errors="coerce": NA stays NA, a number is
\* kept, a spelling of infinity is the float inf or -inf, any other text
\* becomes NA
ToNumeric(x) ==
    Bind(x, LAMBDA y :
        IF y.k # "str" THEN [k |-> "NA", v |-> <<>>, frac |-> FALSE]
        ELSE Bind(ParseNumber(y.s), LAMBDA n :
                IF n.ok THEN [k |-> "num", v |-> n.v, frac |-> n.frac]
                ELSE IF ParseInfinity(y.s) # 0
                THEN [k |-> "inf",
                      v |-> IF ParseInfinity(y.s) > 0 THEN <<"i", "n", "f">> ELSE <<"-", "i", "n", "f">>,
                      frac |-> FALSE]
                ELSE [k |-> "NA", v |-> <<>>, frac |-> FALSE]))

\* astype("Int64") of a to_numeric column.  A float that is no integer (a
\* fraction, inf, -inf) is where builds differ.  pandas 1 casts a float64
\* column safely: cast "safe" raises TypeError (cannot safely cast
\* non-equivalent float64 to int64).  pandas 2 converts the masked Float64
\* column with a C cast, which drops a fraction and whose result for an
\* infinity depends on the processor: cast "truncate" gives the smallest
\* int64 for both infinities, cast "saturate" the largest for inf and the
\* smallest for -inf.
CastModes(version) == IF version = 1 THEN {"safe"} ELSE {"truncate", "saturate"}

\* the two ends of int64
Int64Min == Int64(<<"-", "9", "2", "2", "3", "3", "7", "2", "0", "3", "6", "8", "5", "4", "7", "7", "5", "8", "0", "8">>)

Int64Max == Int64(<<"9", "2", "2", "3", "3", "7", "2", "0", "3", "6", "8", "5", "4", "7", "7", "5", "8", "0", "7">>)

CastOk(col, cast) ==
    cast # "safe" \/ \A i \in 1..Len(col) : \A n \in {ToNumeric(col[i])} : ~n.frac /\ n.k # "inf"

CastCell(x, cast) ==
    Bind(ToNumeric(x), LAMBDA n :
        IF n.k = "NA" THEN NA
        ELSE IF n.k = "inf"
        THEN (IF cast = "saturate" /\ n.v = <<"i", "n", "f">> THEN Int64Max ELSE Int64Min)
        ELSE Int64(n.v))

CastInt64(col, cast) == [i \in 1..Len(col) |-> CastCell(col[i], cast)]


(***************************************************************************)
(* State                                                                   *)
(***************************************************************************)
VARIABLES
    locations_csv,  \* the location table: a sequence of rows of raw fields
    blocks_csv,     \* the block table: its columns and its rows of raw fields
    timestamp,      \* the timestamp passed to merge
    pc,             \* where the run is
    error,          \* the exception that ended the run, if any
    locations_map,  \* merge's locations_map
    blocks,         \* merge's blocks frame
    result,         \* the frame merge returns
    output_csv,     \* the file written by _cli
    cidr,           \* the argument of a call of _calc_ip_range on its own
    given,          \* how that argument was made
    range,          \* what that call returned
    pandas          \* the major version of the pandas the run imports

vars == <<locations_csv, blocks_csv, timestamp, pc, error, locations_map, blocks,
          result, output_csv, cidr, given, range, pandas>>

IdCols == <<"geoname_id", "registered_country_geoname_id", "represented_country_geoname_id">>

int_cols == <<"geoname_id", "registered_country_geoname_id", "represented_country_geoname_id",
              "is_anonymous_proxy", "is_satellite_provider", "is_anycast">>

OutCols == <<"_last_changed", "network", "start_ip", "end_ip", "code", "name">>

Range(f) == {f[i] : i \in DOMAIN f}

NoError == [exc |-> "", at |-> ""]

Raised(exc, at) == [exc |-> exc, at |-> at]

EmptyMap == [key \in {} |-> <<NA, NA>>]

NoFrame == [columns |-> {}, rows |-> <<>>]

NoFile == [written |-> FALSE, rows |-> <<>>]

(***************************************************************************)
(* _load_locations                                                         *)
(***************************************************************************)
\* pd.read_csv(path, dtype="string") of the location table
ReadLocations(csv) ==
    [i \in 1..Len(csv) |->
        [geoname_id       |-> ReadCell(csv[i].geoname_id, FALSE, STR_NA_VALUES(pandas)),
         country_iso_code |-> ReadCell(csv[i].country_iso_code, FALSE, STR_NA_VALUES(pandas)),
         country_name     |-> ReadCell(csv[i].country_name, FALSE, STR_NA_VALUES(pandas))]]

\* the dict comprehension: the rows are inserted in order, a later row with the
\* same key replaces the earlier one
\* Faulty variant of Insert: the first row with a key is kept.
InsertKeepFirst(map, key, value) ==
    [k \in DOMAIN map \cup {key} |-> IF k \in DOMAIN map THEN map[k] ELSE value]

\* d[key] = value
Insert(map, key, value) ==
    [k \in DOMAIN map \cup {key} |-> IF k = key THEN value ELSE map[k]]

RECURSIVE BuildIndexTo(_, _)
BuildIndexTo(rows, n) ==
    IF n = 0 THEN EmptyMap
    ELSE Bind(BuildIndexTo(rows, n - 1), LAMBDA front :
            Insert(front, PyInt(rows[n].geoname_id).v,
                   <<rows[n].country_iso_code, rows[n].country_name>>))

BuildIndex(rows) == BuildIndexTo(rows, Len(rows))

\* Faulty variant of _load_locations: a row whose geoname_id is no integer is
\* left out of the index instead of ending the run.
_load_locations_skip_bad(csv) ==
    Bind(ReadLocations(csv) \o <<>>, LAMBDA df :
        [ok  |-> TRUE,
         map |-> BuildIndex(SelectSeq(df, LAMBDA row : PyInt(row.geoname_id).ok))])

\* _load_locations: the index, or the exception int() raises on the first row
\* whose geoname_id is no integer
_load_locations(csv) ==
    Bind(ReadLocations(csv) \o <<>>, LAMBDA df :
        Bind({i \in 1..Len(df) : ~PyInt(df[i].geoname_id).ok}, LAMBDA bad :
            IF bad = {} THEN [ok |-> TRUE, map |-> BuildIndex(df)]
            ELSE [ok  |-> FALSE,
                  exc |-> IF df[MinOf(bad)].geoname_id.k = "NA" THEN "TypeError"
                          ELSE "ValueError"]))

(***************************************************************************)
(* merge                                                                   *)
(***************************************************************************)
\* pd.read_csv(blocks_csv, dtype="string", skipinitialspace=True,
\*             na_values=["", " ", "  "])
ReadBlocksFrame(csv) ==
    [columns |-> csv.columns,
     rows    |-> [i \in 1..Len(csv.rows) |->
                    [c \in csv.columns |->
                        ReadCell(csv.rows[i][c], TRUE,
                                 STR_NA_VALUES(pandas) \cup BLOCK_NA_VALUES)]]]

Column(frame, c) == [i \in 1..Len(frame.rows) |-> frame.rows[i][c]] \o <<>>

PresentIntCols(frame) == {c \in Range(int_cols) : c \in frame.columns}

\* for col in int_cols: if col in blocks.columns: blocks[col] = to_numeric(...).astype("Int64")
CoerceOk(frame, cast) == \A c \in PresentIntCols(frame) : CastOk(Column(frame, c), cast)

CoerceFrame(frame, cast) ==
    [columns |-> frame.columns,
     rows    |-> [i \in 1..Len(frame.rows) |->
                    [c \in frame.columns |->
                        IF c \in PresentIntCols(frame) THEN CastCell(frame.rows[i][c], cast)
                        ELSE frame.rows[i][c]]]]

\* the loop of _lookup_country over its three keys
RECURSIVE LookupKeys(_, _)
LookupKeys(keys, map) ==
    IF keys = <<>> THEN <<PyNone, PyNone>>
    ELSE IF ~isna(keys[1]) /\ keys[1].s \in DOMAIN map THEN map[keys[1].s]
    ELSE LookupKeys(Tail(keys), map)

\* Faulty variant of _lookup_country: the registered country is tried first.
_lookup_country_registered_first(row, map) ==
    LookupKeys(<<row[IdCols[2]], row[IdCols[1]], row[IdCols[3]]>>, map)

_lookup_country(row, map) ==
    LookupKeys(<<row[IdCols[1]], row[IdCols[2]], row[IdCols[3]]>>, map)

\* row.<col> raises AttributeError when the frame has no such column
LookupColumnsPresent(frame) == \A j \in 1..3 : IdCols[j] \in frame.columns

\* frame with the columns cols added (or replaced), row i taking values(i)
WithColumns(frame, cols, values(_)) ==
    [columns |-> frame.columns \cup Range(cols),
     rows    |-> [i \in 1..Len(frame.rows) |->
                    Bind(values(i), LAMBDA new :
                        [c \in frame.columns \cup Range(cols) |->
                            IF \E j \in 1..Len(cols) : cols[j] = c
                            THEN new[CHOOSE j \in 1..Len(cols) : cols[j] = c]
                            ELSE frame.rows[i][c]])]]

\* str(cidr) as ip_network sees a cell
CellText(x) == IF x.k = "str" THEN x.s ELSE <<"<", "N", "A", ">">>

\* Faulty variant of FillNa: None is left as it is.
FillNaKeepNone(x) == IF x.k = "NA" THEN Str(<<>>) ELSE x

\* DataFrame.fillna("")
FillNa(x) == IF isna(x) THEN Str(<<>>) ELSE x

\* Faulty variant of SelectFillNa: the rows come out in reverse order.
SelectFillNaReversed(frame) ==
    [i \in 1..Len(frame.rows) |->
        [c \in Range(OutCols) |-> FillNa(frame.rows[Len(frame.rows) + 1 - i][c])]]

\* blocks[[...six columns...]].fillna("").copy()
SelectFillNa(frame) ==
    [i \in 1..Len(frame.rows) |-> [c \in Range(OutCols) |-> FillNa(frame.rows[i][c])]]

\* Faulty variant of Stamp: only the first row gets the timestamp.
StampFirstRow(frame, ts) ==
    WithColumns(frame, <<"_last_changed">>, LAMBDA i : IF i = 1 THEN <<Str(ts)>> ELSE <<NA>>)

\* blocks["_last_changed"] = timestamp
Stamp(frame, ts) == WithColumns(frame, <<"_last_changed">>, LAMBDA i : <<Str(ts)>>)

(***************************************************************************)
(* Actions                                                                 *)
(***************************************************************************)
Abort(exc, at) ==
    /\ pc' = "aborted"
    /\ error' = Raised(exc, at)

\* merge, line 54: locations_map = _load_locations(...)
LoadLocations ==
    /\ pc = "start"
    /\ \E loaded \in {_load_locations(locations_csv)} :
          IF loaded.ok
          THEN /\ locations_map' = loaded.map
               /\ pc' = "loaded"
               /\ UNCHANGED error
          ELSE /\ Abort(loaded.exc, "_load_locations")
               /\ UNCHANGED locations_map
    /\ UNCHANGED <<locations_csv, blocks_csv, timestamp, pandas, blocks, result, output_csv,
                   cidr, given, range>>

\* merge, lines 60-66: the block table is read
ReadBlocks ==
    /\ pc = "loaded"
    /\ blocks' = ReadBlocksFrame(blocks_csv)
    /\ pc' = "read"
    /\ UNCHANGED <<locations_csv, blocks_csv, timestamp, pandas, error, locations_map, result,
                   output_csv, cidr, given, range>>

\* merge, lines 68-79: the integer columns are coerced
CoerceIntCols ==
    /\ pc = "read"
    /\ \E cast \in CastModes(pandas) :
          IF CoerceOk(blocks, cast)
          THEN /\ blocks' = CoerceFrame(blocks, cast)
               /\ pc' = "coerced"
               /\ UNCHANGED error
          ELSE /\ Abort("TypeError", "astype")
               /\ UNCHANGED blocks
    /\ UNCHANGED <<locations_csv, blocks_csv, timestamp, pandas, locations_map, result,
                   output_csv, cidr, given, range>>

\* merge, lines 81-93: blocks[["code", "name"]] = blocks.apply(_lookup_country, axis=1).
\* On a frame without rows apply returns a copy of the frame, and the assignment
\* raises ValueError (Columns must be same length as key).
LookupCountries ==
    /\ pc = "coerced"
    /\ IF blocks.rows = <<>>
       THEN /\ Abort("ValueError", "setitem")
            /\ UNCHANGED blocks
       ELSE IF ~LookupColumnsPresent(blocks)
       THEN /\ Abort("AttributeError", "_lookup_country")
            /\ UNCHANGED blocks
       ELSE /\ blocks' = WithColumns(blocks, <<"code", "name">>,
                             LAMBDA i : _lookup_country(blocks.rows[i], locations_map))
            /\ pc' = "looked"
            /\ UNCHANGED error
    /\ UNCHANGED <<locations_csv, blocks_csv, timestamp, pandas, locations_map, result,
                   output_csv, cidr, given, range>>

\* Faulty variant of CalcRanges: a network that cannot be parsed gets an empty
\* range and the run goes on.
CalcRangesSkipBad ==
    /\ pc = "looked"
    /\ blocks' = WithColumns(blocks, <<"start_ip", "end_ip">>,
                     LAMBDA i :
                        Bind(_calc_ip_range(CellText(blocks.rows[i]["network"])),
                             LAMBDA r : IF r.ok THEN <<Str(r.start_ip), Str(r.end_ip)>>
                                        ELSE <<NA, NA>>))
    /\ pc' = "ranged"
    /\ UNCHANGED <<locations_csv, blocks_csv, timestamp, pandas, error, locations_map, result,
                   output_csv, cidr, given, range>>

\* merge, lines 95-97: blocks[["start_ip", "end_ip"]] = blocks["network"].apply(_calc_ip_range)
CalcRanges ==
    /\ pc = "looked"
    /\ IF \A i \in 1..Len(blocks.rows) : _calc_ip_range(CellText(blocks.rows[i]["network"])).ok
       THEN /\ blocks' = WithColumns(blocks, <<"start_ip", "end_ip">>,
                             LAMBDA i :
                                Bind(_calc_ip_range(CellText(blocks.rows[i]["network"])),
                                     LAMBDA r : <<Str(r.start_ip), Str(r.end_ip)>>))
            /\ pc' = "ranged"
            /\ UNCHANGED error
       ELSE /\ Abort("ValueError", "_calc_ip_range")
            /\ UNCHANGED blocks
    /\ UNCHANGED <<locations_csv, blocks_csv, timestamp, pandas, locations_map, result,
                   output_csv, cidr, given, range>>

\* merge, lines 99-105: the timestamp column, the selection, fillna(""), return
Assemble ==
    /\ pc = "ranged"
    /\ \E stamped \in {Stamp(blocks, timestamp)} :
          /\ blocks' = stamped
          /\ result' = SelectFillNa(stamped)
    /\ pc' = "returned"
    /\ UNCHANGED <<locations_csv, blocks_csv, timestamp, pandas, error, locations_map,
                   output_csv, cidr, given, range>>

\* _cli, lines 143-144: df = merge(...); df.to_csv(output_csv, index=False)
WriteCsv ==
    /\ pc = "returned"
    /\ output_csv' = [written |-> TRUE, rows |-> result]
    /\ pc' = "done"
    /\ UNCHANGED <<locations_csv, blocks_csv, timestamp, pandas, error, locations_map, blocks,
                   result, cidr, given, range>>

\* a call of _calc_ip_range
CalcRange ==
    /\ pc = "range_start"
    /\ range' = _calc_ip_range(cidr)
    /\ pc' = "range_done"
    /\ UNCHANGED <<locations_csv, blocks_csv, timestamp, pandas, error, locations_map, blocks,
                   result, output_csv, cidr, given>>


(***************************************************************************)
(* Inputs                                                                  *)
(***************************************************************************)
MaxLocRows == 2

MaxBlockRows == 2

SeqsUpTo(S, n) == UNION {[1..k -> S] : k \in 0..n}

LocRow(id, code, name) ==
    [geoname_id |-> id, country_iso_code |-> code, country_name |-> name]

\* two ids, one of them twice with different countries, an NA country code, an
\* id that is no integer, a blank id
LocationSamples ==
    {LocRow(<<"1">>, <<"R", "U">>, <<"R", "u", "s", "s", "i", "a">>),
     LocRow(<<"1">>, <<"D", "E">>, <<"N", "o", "n", "e">>),
     LocRow(<<"2">>, <<"N", "A">>, <<"N", "a", "m", "i", "b", "i", "a">>),
     LocRow(<<"x">>, <<"F", "R">>, <<"F", "r", "a", "n", "c", "e">>),
     LocRow(<<>>, <<"U", "S">>, <<"U", "S", "A">>)}

BlockRow(network, gid, registered, represented) ==
    [c \in {"network"} \cup Range(IdCols) \cup {"is_anycast"} |->
        CASE c = "network" -> network
          [] c = "geoname_id" -> gid
          [] c = "registered_country_geoname_id" -> registered
          [] c = "represented_country_geoname_id" -> represented
          [] OTHER -> <<"0">>]

BlockSamples ==
    {BlockRow(<<"1", "0", ".", "0", ".", "0", ".", "5", "/", "3", "0">>, <<"1">>, <<"2">>, <<>>),
     BlockRow(<<"1", "9", "2", ".", "0", ".", "2", ".", "1", "7", "/", "3", "2">>, <<>>, <<"a", "b", "c">>, <<"7">>),
     BlockRow(<<"2", "0", "3", ".", "0", ".", "1", "1", "3", ".", "1", "2", "8", "/", "2", "5">>, <<"1", ".", "5">>, <<" ", "2", " ">>, <<"1">>),
     BlockRow(<<"2", "0", "0", "1", ":", "d", "b", "8", ":", ":", "/", "3", "2">>, <<"i", "n", "f">>, <<"2", ".", "0">>, <<"1">>),
     BlockRow(<<"n", "o", "t", "-", "a", "-", "c", "i", "d", "r">>, <<"2">>, <<>>, <<"1">>),
     BlockRow(<<>>, <<"1">>, <<"1">>, <<"1">>)}

\* the block table with the identifier columns and a flag column, and without
\* the third identifier column and the flag column
ColumnSets ==
    {{"network"} \cup Range(IdCols) \cup {"is_anycast"},
     {"network", "geoname_id", "registered_country_geoname_id"}}

BlockTables ==
    {[columns |-> cols, rows |-> [i \in 1..Len(rows) |-> [c \in cols |-> rows[i][c]]]] :
        cols \in ColumnSets, rows \in SeqsUpTo(BlockSamples, MaxBlockRows)}

Timestamps == {<<"0", "1", ".", "0", "2", ".", "2", "0", "2", "4", " ", "0", "3", ":", "0", "4", ":", "0", "5">>, <<>>}

OctetSamples == {0, 5, 10, 128, 255}

\* "a.b.c.d/p"
CidrText(groups, prefixlen) == StrIPv4(groups) \o <<"/">> \o NumStr(prefixlen, 10)

CidrInputs ==
    {[kind |-> "ipv4cidr", groups |-> g, prefixlen |-> p, text |-> CidrText(g, p)] :
        g \in [1..4 -> OctetSamples], p \in 0..32}
    \cup
    {[kind |-> "other", groups |-> <<>>, prefixlen |-> 0, text |-> t] :
        t \in {<<"2", "0", "0", "1", ":", "d", "b", "8", ":", ":", "/", "3", "2">>, <<":", ":", "/", "0">>, <<"n", "o", "t", "-", "a", "-", "c", "i", "d", "r">>, <<>>, <<"<", "N", "A", ">">>, <<"1", "0", ".", "0", ".", "0", ".", "5">>,
               <<"1", "0", ".", "0", ".", "0", ".", "5", "/", "2", "5", "5", ".", "2", "5", "5", ".", "2", "5", "5", ".", "2", "5", "2">>, <<"1", "0", ".", "0", ".", "0", ".", "5", "/", "3", "3">>, <<"1", "0", ".", "0", ".", "0", ".", "5", "/">>, <<"1", "0", ".", "0", ".", "0", "/", "8">>,
               <<"0", "1", "0", ".", "0", ".", "0", ".", "5", "/", "8">>, <<"1", "0", ".", "0", ".", "0", ".", "5", "/", "3", "0", " ">>}}

(***************************************************************************)
(* Specifications                                                          *)
(***************************************************************************)
Init ==
    /\ locations_csv \in SeqsUpTo(LocationSamples, MaxLocRows)
    /\ blocks_csv \in BlockTables
    /\ timestamp \in Timestamps
    /\ pc = "start"
    /\ error = NoError
    /\ locations_map = EmptyMap
    /\ blocks = NoFrame
    /\ result = <<>>
    /\ output_csv = NoFile
    /\ cidr = <<>>
    /\ given = [kind |-> "none", groups |-> <<>>, prefixlen |-> 0, text |-> <<>>]
    /\ range = Fail
    /\ pandas \in PandasVersions

Next ==
    \/ LoadLocations
    \/ ReadBlocks
    \/ CoerceIntCols
    \/ LookupCountries
    \/ CalcRanges
    \/ Assemble
    \/ WriteCsv

Spec == Init /\ [][Next]_vars

\* calls of _calc_ip_range on its own
InitRange ==
    /\ given \in CidrInputs
    /\ cidr = given.text
    /\ range = Fail
    /\ pc = "range_start"
    /\ locations_csv = <<>>
    /\ blocks_csv = NoFrame
    /\ timestamp = <<>>
    /\ error = NoError
    /\ locations_map = EmptyMap
    /\ blocks = NoFrame
    /\ result = <<>>
    /\ output_csv = NoFile
    /\ pandas \in {2}

NextRange == CalcRange

SpecRange == InitRange /\ [][NextRange]_vars


(***************************************************************************)
(* Properties                                                              *)
(***************************************************************************)
Succeeded == pc \in {"returned", "done"}

Resolved == pc \in {"looked", "ranged", "returned", "done"}

IndexBuilt == pc \in {"loaded", "read", "coerced", "looked", "ranged", "returned", "done"}

\* the cells of the inputs as the two reads give them
LocId(i) == ReadCell(locations_csv[i].geoname_id, FALSE, STR_NA_VALUES(pandas))

LocCountry(i) ==
    <<ReadCell(locations_csv[i].country_iso_code, FALSE, STR_NA_VALUES(pandas)),
      ReadCell(locations_csv[i].country_name, FALSE, STR_NA_VALUES(pandas))>>

NetworkCell(i) == ReadCell(blocks_csv.rows[i]["network"], TRUE, STR_NA_VALUES(pandas) \cup BLOCK_NA_VALUES)

BlockRowNums == 1..Len(blocks_csv.rows)

\* the three candidates of block row i in the frame, in the order of the lookup
Keys(i) == <<blocks.rows[i][IdCols[1]], blocks.rows[i][IdCols[2]], blocks.rows[i][IdCols[3]]>>

\* the candidates of row i that are present, numeric and keys of the index
Hits(i) == {j \in 1..3 : Keys(i)[j].k = "int" /\ Keys(i)[j].s \in DOMAIN locations_map}

\* text made of decimal digits only
IsDigits(t) == t # <<>> /\ AllIn(t, DecDigits)

\* C1: the country of every block row is the index entry of the first of its
\* three candidates (geoname_id, registered, represented) that is present,
\* numeric and a key of the index, whatever the later candidates are; a blank
\* cell is no candidate and a cell of digits is the candidate of that number.
C1_FirstMatchWins ==
    Resolved =>
        \A i \in BlockRowNums :
            /\ \A j \in 1..3 :
                  \A raw \in {blocks_csv.rows[i][IdCols[j]]} :
                      /\ raw \in {<<>>, <<" ">>} => Keys(i)[j] = NA
                      /\ IsDigits(raw) => Keys(i)[j] = Int64(IF DropLeading(raw, {"0"}) = <<>> THEN <<"0">>
                                                         ELSE DropLeading(raw, {"0"}))
            /\ <<blocks.rows[i]["code"], blocks.rows[i]["name"]>>
                  = IF Hits(i) = {} THEN <<PyNone, PyNone>>
                    ELSE locations_map[Keys(i)[MinOf(Hits(i))].s]

\* a row whose first two candidates resolve to different countries, a row
\* whose first candidate is skipped, and a row whose first candidate is an
\* infinity cast to an end of int64, in a finished run
C1_Witness ==
    /\ pc = "done"
    /\ \E i \in BlockRowNums :
          /\ {1, 2} \subseteq Hits(i)
          /\ locations_map[Keys(i)[1].s] # locations_map[Keys(i)[2].s]
          /\ output_csv.rows[i]["name"] = locations_map[Keys(i)[1].s][2]
    /\ \E i \in BlockRowNums : Hits(i) # {} /\ 1 \notin Hits(i)
    /\ \E i \in BlockRowNums : Hits(i) # {} /\ Keys(i)[1] \in {Int64Min, Int64Max}

\* the big-endian 32-bit number of four octets, as two 16-bit halves
Halves(g) == <<g[1] * 256 + g[2], g[3] * 256 + g[4]>>

LeqHalves(a, b) == a[1] < b[1] \/ (a[1] = b[1] /\ a[2] <= b[2])

\* the address with its low (32 - p) bits zeroed
ExpectedStart(g, p) ==
    IF p >= 16
    THEN <<Halves(g)[1], (Halves(g)[2] \div Pow(2, 32 - p)) * Pow(2, 32 - p)>>
    ELSE <<(Halves(g)[1] \div Pow(2, 16 - p)) * Pow(2, 16 - p), 0>>

\* 2^(32 - p) - 1
HostCount(p) == IF p >= 16 THEN <<0, Pow(2, 32 - p) - 1>> ELSE <<Pow(2, 16 - p) - 1, 65535>>

\* start + (2^(32 - p) - 1), with the carry out of the 32 bits as a third element
ExpectedEnd(g, p) ==
    <<(ExpectedStart(g, p)[1] + HostCount(p)[1]
            + (ExpectedStart(g, p)[2] + HostCount(p)[2]) \div 65536) % 65536,
      (ExpectedStart(g, p)[2] + HostCount(p)[2]) % 65536,
      (ExpectedStart(g, p)[1] + HostCount(p)[1]
            + (ExpectedStart(g, p)[2] + HostCount(p)[2]) \div 65536) \div 65536>>

\* C2: for a valid IPv4 CIDR a.b.c.d/p, host bits set or not, _calc_ip_range
\* returns the dotted address with the low 32 - p bits zeroed and that address
\* plus 2^(32 - p) - 1, without overflow of the 32 bits; so start <= end, the
\* given address lies between them, /32 gives start = end and /0 gives
\* 0.0.0.0 to 255.255.255.255.
C2_RangeOfCidr ==
    (pc = "range_done" /\ given.kind = "ipv4cidr") =>
        /\ range.ok
        /\ IPv4FromString(range.start_ip).ok
        /\ IPv4FromString(range.end_ip).ok
        /\ \A start \in {Halves(IPv4FromString(range.start_ip).groups)} :
           \A end \in {Halves(IPv4FromString(range.end_ip).groups)} :
              /\ start = ExpectedStart(given.groups, given.prefixlen)
              /\ <<end[1], end[2], 0>> = ExpectedEnd(given.groups, given.prefixlen)
              /\ LeqHalves(start, end)
              /\ LeqHalves(start, Halves(given.groups))
              /\ LeqHalves(Halves(given.groups), end)
              /\ given.prefixlen = 32 => start = end /\ start = Halves(given.groups)
              /\ given.prefixlen = 0 => start = <<0, 0>> /\ end = <<65535, 65535>>
        /\ range.start_ip = StrIPv4(IPv4FromString(range.start_ip).groups)
        /\ range.end_ip = StrIPv4(IPv4FromString(range.end_ip).groups)

\* 10.0.0.5/30, an address with host bits set, gives 10.0.0.4 to 10.0.0.7
C2_Witness ==
    /\ pc = "range_done"
    /\ given.kind = "ipv4cidr"
    /\ cidr = <<"1", "0", ".", "0", ".", "0", ".", "5", "/", "3", "0">>
    /\ range.ok
    /\ range.start_ip = <<"1", "0", ".", "0", ".", "0", ".", "4">>
    /\ range.end_ip = <<"1", "0", ".", "0", ".", "0", ".", "7">>

\* C3: when merge succeeds the output has one row per block row, in the order
\* of the block table: row i carries the network of block row i, the range of
\* that network and the country looked up for block row i.
C3_RowsPreserved ==
    Succeeded =>
        /\ Len(result) = Len(blocks_csv.rows)
        /\ \E cast \in CastModes(pandas) :
              \A i \in BlockRowNums : \A j \in 1..3 :
                  Keys(i)[j] = CastCell(ReadCell(blocks_csv.rows[i][IdCols[j]],
                                                 TRUE, STR_NA_VALUES(pandas) \cup BLOCK_NA_VALUES), cast)
        /\ \A i \in BlockRowNums :
              /\ result[i]["network"] = Str(DropLeading(blocks_csv.rows[i]["network"], {" "}))
              /\ \A r \in {_calc_ip_range(DropLeading(blocks_csv.rows[i]["network"], {" "}))} :
                    /\ r.ok
                    /\ result[i]["start_ip"] = Str(r.start_ip)
                    /\ result[i]["end_ip"] = Str(r.end_ip)
              /\ \A country \in {IF Hits(i) = {} THEN <<NA, NA>>
                                 ELSE locations_map[Keys(i)[MinOf(Hits(i))].s]} :
                    /\ result[i]["code"] = (IF country[1].k = "str" THEN country[1] ELSE Str(<<>>))
                    /\ result[i]["name"] = (IF country[2].k = "str" THEN country[2] ELSE Str(<<>>))

\* a finished run over two block rows with different networks and countries
C3_Witness ==
    /\ pc = "done"
    /\ Len(output_csv.rows) = 2
    /\ output_csv.rows[1]["network"] # output_csv.rows[2]["network"]
    /\ output_csv.rows[1]["start_ip"] # output_csv.rows[2]["start_ip"]
    /\ output_csv.rows[1]["name"] # output_csv.rows[2]["name"]

\* C4: a block row none of whose three candidates is a key of the index (all
\* absent, or all unknown) has code "" and name "" in the output, as text and
\* not as a null; the lookup raises for no cell content, only for a missing
\* column.
C4_NoMatchEmpty ==
    /\ Succeeded =>
          \A i \in BlockRowNums :
              Hits(i) = {} => /\ result[i]["code"] = Str(<<>>)
                              /\ result[i]["name"] = Str(<<>>)
    /\ (pc = "aborted" /\ error.at = "_lookup_country") =>
          \E j \in 1..3 : IdCols[j] \notin blocks_csv.columns

\* a finished run with a row whose candidates are all absent or unknown to a
\* non-empty index, next to a row that resolves
C4_Witness ==
    /\ pc = "done"
    /\ DOMAIN locations_map # {}
    /\ \E i \in BlockRowNums :
          /\ Hits(i) = {}
          /\ \E j \in 1..3 : Keys(i)[j] = NA
          /\ \E j \in 1..3 : Keys(i)[j].k = "int"
          /\ output_csv.rows[i]["code"] = Str(<<>>)
    /\ \E i \in BlockRowNums : Hits(i) # {}

\* the block rows whose network is no network
BadNetworkRows == {i \in BlockRowNums : ~_calc_ip_range(CellText(NetworkCell(i))).ok}

\* C5: when some block row, at any position, has a network that cannot be
\* parsed, the run never gets past the range computation, never returns a
\* table and never writes the output file (stated as: wherever one of these
\* has happened no row has such a network); the abort in the range
\* computation happens on such a row only and leaves nothing produced.
C5_BadNetworkAborts ==
    /\ (\/ pc \in {"ranged", "returned", "done"}
        \/ result # <<>>
        \/ output_csv.written) => BadNetworkRows = {}
    /\ (pc = "aborted" /\ error.at = "_calc_ip_range") =>
          /\ BadNetworkRows # {}
          /\ result = <<>>
          /\ ~output_csv.written

\* the run has ended in the range computation on a table whose first row is
\* good and whose second row is not
C5_Witness ==
    /\ pc = "aborted"
    /\ error = Raised("ValueError", "_calc_ip_range")
    /\ BadNetworkRows = {2}
    /\ ~output_csv.written

\* an IPv4 address, a slash and a prefix length from 0 to 32
IsIPv4Cidr(text) ==
    /\ Len(Split(text, "/")) = 2
    /\ IPv4FromString(Split(text, "/")[1]).ok
    /\ PrefixFromPrefixString(Split(text, "/")[2], 32).ok

\* C6: the range computation fails for every network that is not a valid IPv4
\* CIDR string, an IPv6 CIDR such as 2001:db8::/32 included.
C6_OnlyIPv4CidrAccepted ==
    (pc = "range_done" /\ ~IsIPv4Cidr(cidr)) => ~range.ok

\* no cell of an integer column of the block table is a number with a
\* fraction or an infinity
NoFractions ==
    \A i \in BlockRowNums : \A c \in blocks_csv.columns \cap Range(int_cols) :
        \A n \in {ToNumeric(ReadCell(blocks_csv.rows[i][c], TRUE, STR_NA_VALUES(pandas) \cup BLOCK_NA_VALUES))} :
            ~n.frac /\ n.k # "inf"

\* C7: merge aborts only for a location identifier that is no integer and for
\* a network that is no valid IPv4 CIDR: when every location id is an integer
\* and every network a valid IPv4 CIDR the run does not abort, whatever the
\* identifier fields of the block rows hold and whether or not they are there.
\* (Stated on the tables without a fraction or an infinity in an integer
\* column, where the outcome does not depend on the pandas build.)
C7_AbortsOnlyOnFatalKinds ==
    (/\ \A i \in 1..Len(locations_csv) : PyInt(LocId(i)).ok
     /\ \A i \in BlockRowNums : IsIPv4Cidr(CellText(NetworkCell(i)))
     /\ NoFractions)
        => pc # "aborted"

\* the location rows whose geoname_id is no integer
BadLocationRows == {i \in 1..Len(locations_csv) : ~PyInt(LocId(i)).ok}

\* C8: when some location row has a geoname_id that is no integer the run ends
\* while the index is built: no block row is read or resolved, no range is
\* computed, nothing is returned or written (stated as: wherever the run is
\* past the index build, or anything has been read or produced, every location
\* id is an integer and a key of the index); the abort in the index build
\* happens on such a row only, with no index and no block frame.
C8_BadIdAbortsFirst ==
    /\ (\/ IndexBuilt
        \/ pc = "aborted" /\ error.at # "_load_locations"
        \/ locations_map # EmptyMap
        \/ blocks # NoFrame
        \/ result # <<>>
        \/ output_csv.written) =>
          /\ BadLocationRows = {}
          /\ \A i \in 1..Len(locations_csv) : PyInt(LocId(i)).v \in DOMAIN locations_map
    /\ (pc = "aborted" /\ error.at = "_load_locations") =>
          /\ BadLocationRows # {}
          /\ locations_map = EmptyMap
          /\ blocks = NoFrame
          /\ result = <<>>
          /\ ~output_csv.written

\* the run has ended in the index build on a location table whose first row
\* is good and whose second is not, with block rows waiting
C8_Witness ==
    /\ pc = "aborted"
    /\ error.at = "_load_locations"
    /\ BadLocationRows = {2}
    /\ Len(blocks_csv.rows) > 0
    /\ blocks = NoFrame

\* C9: the index has exactly the distinct ids of the location rows as keys,
\* and each key maps to the country code and name of the last row with that
\* id; a repeated id is no error.
C9_LastRowWins ==
    IndexBuilt =>
        /\ DOMAIN locations_map = {PyInt(LocId(i)).v : i \in 1..Len(locations_csv)}
        /\ \A i \in 1..Len(locations_csv) :
              (\A j \in (i + 1)..Len(locations_csv) : PyInt(LocId(j)).v # PyInt(LocId(i)).v)
                  => locations_map[PyInt(LocId(i)).v] = LocCountry(i)

\* an index built from two rows with the same id and different countries
C9_Witness ==
    /\ IndexBuilt
    /\ Len(locations_csv) = 2
    /\ PyInt(LocId(1)).v = PyInt(LocId(2)).v
    /\ LocCountry(1) # LocCountry(2)
    /\ locations_map[PyInt(LocId(2)).v] = LocCountry(2)

\* C10: when merge succeeds every output row has the timestamp passed to
\* merge, unchanged, as its _last_changed, whatever its network and country.
C10_TimestampBroadcast ==
    /\ Succeeded => \A i \in 1..Len(result) : result[i]["_last_changed"] = Str(timestamp)
    /\ output_csv.written =>
          \A i \in 1..Len(output_csv.rows) : output_csv.rows[i]["_last_changed"] = Str(timestamp)

\* a finished run with a non-empty timestamp over a row that resolves and a
\* row that does not
C10_Witness ==
    /\ pc = "done"
    /\ timestamp # <<>>
    /\ Len(output_csv.rows) = 2
    /\ Hits(1) # {} /\ Hits(2) = {}
    /\ output_csv.rows[2]["_last_changed"] = Str(timestamp)

====
